---- MODULE Spec2Model ----
(***************************************************************************)
(* Model of etiket_service_manager: one lifecycle abstraction (install,    *)
(* uninstall, enable, disable, start, stop, status, version) over systemd  *)
(* (linux.py), launchd (macos.py) and Task Scheduler plus the VBS          *)
(* supervisor (windows.py, windows_templates.py).                          *)
(*                                                                         *)
(* The native facility is the record "env"; every library operation is an  *)
(* operator from (env, inputs, outcome of the native calls) to the new env,*)
(* the exception raised and the list of state-changing native calls made.  *)
(***************************************************************************)
EXTENDS Integers, Sequences, FiniteSets, TLC

VARIABLES backend, env, last

vars == <<backend, env, last>>

(***************************************************************************)
(* Bounds                                                                   *)
(***************************************************************************)
\* number of status samples the convergence poller takes before its timeout
MaxSamples == 1
\* number of native call kinds that may fail during one operation
MaxFaults == 1
\* process ids handed out by the operating system
MaxPid == 1

Backends == {"linux", "macos", "windows"}

(***************************************************************************)
(* status.py                                                                *)
(***************************************************************************)
InstallationStatus == {"INSTALLED", "NOT_INSTALLED"}
EnablementStatus == {"ENABLED", "DISABLED"}
RunningStatus == {"RUNNING", "NOT_RUNNING"}

ServiceStatus(i, en, r) == [installation_status |-> i, enablement_status |-> en, running_status |-> r]

ServiceStatusValues == [installation_status : InstallationStatus, enablement_status : EnablementStatus, running_status : RunningStatus]

(***************************************************************************)
(* exceptions.py                                                            *)
(***************************************************************************)
ServiceOperation == {"install", "uninstall", "enable", "disable", "start", "stop", "getStatus", "getVersion"}

NoError == [type |-> "none", op |-> "-"]

Raise(t) == [type |-> t, op |-> "-"]

ServiceOperationError(op) == [type |-> "ServiceOperationError", op |-> op]

PreconditionErrors == {"ServiceNotInstalledError", "ServiceAlreadyInstalledError", "ServiceAlreadyEnabledError", "ServiceAlreadyDisabledError", "ServiceAlreadyRunningError", "ServiceAlreadyStoppedError"}

(***************************************************************************)
(* Versions: str(Version) as the characters written into the unit.         *)
(***************************************************************************)
Digits == {"0", "1", "2"}
Letters == {"r", "c", "l"}
V_1_0_0 == <<"1", ".", "0", ".", "0">>
V_1_0_local == <<"1", ".", "0", "+", "l">>
Versions == {V_1_0_0, V_1_0_local}
NoVersion == <<>>

(***************************************************************************)
(* The native facility and the file system, as the library observes them.  *)
(*   unit    the unit definition exists (service file, plist, task)        *)
(*   ver     the version text embedded in the unit definition               *)
(*   dir     the owned directory app_dir exists                             *)
(*   enab    the facility's enablement record for the service               *)
(*   loaded  systemd/launchd holds a start job for the service              *)
(*   active  systemd/launchd reports the service process as running         *)
(*   sup     position of the VBS supervisor loop (windows_templates.py)     *)
(*   child   intPID of the supervisor loop                                  *)
(*   procs   what holds each process id                                     *)
(*   marker  pid recorded in service.pid, 0 when the file is absent         *)
(*   fault   how the facility's answers to status queries are degraded      *)
(***************************************************************************)
Pids == 1..MaxPid

Faults == {"none", "enab_unknown", "query_fail"}

SupStates == {"dead", "spawn", "write", "monitor", "reap", "sleep"}

NoProcs == [p \in Pids |-> "free"]

CleanEnv(b, d) == [unit |-> FALSE, ver |-> NoVersion, dir |-> d, enab |-> IF b = "linux" THEN "disabled" ELSE "absent", loaded |-> FALSE, active |-> FALSE, sup |-> "dead", child |-> 0, procs |-> NoProcs, marker |-> 0, fault |-> "none"]

\* the state a completed install leaves behind (found by a later session)
DeployedEnv(b, v) == IF b = "windows"
                     THEN [CleanEnv(b, TRUE) EXCEPT !.unit = TRUE, !.ver = v, !.enab = "enabled", !.sup = "monitor", !.child = 1, !.procs = [NoProcs EXCEPT ![1] = "payload"], !.marker = 1]
                     ELSE [CleanEnv(b, TRUE) EXCEPT !.unit = TRUE, !.ver = v, !.enab = "enabled", !.loaded = TRUE, !.active = TRUE]

pid_exists(e, p) == p \in Pids /\ e.procs[p] # "free"

FreePids(e) == {p \in Pids : e.procs[p] = "free"}

\* the process id the operating system hands out next, 0 when none is left
NextPid(e) == IF FreePids(e) = {} THEN 0 ELSE CHOOSE p \in FreePids(e) : \A q \in FreePids(e) : p <= q

(***************************************************************************)
(* status: the triple is recomputed from the facility on every read.       *)
(* A status read yields [exc, st].                                          *)
(***************************************************************************)
NotInstalledStatus == ServiceStatus("NOT_INSTALLED", "DISABLED", "NOT_RUNNING")

\* a read that returned st after making the facility queries q and left the facility as e
Read(e, st, q) == [exc |-> NoError, st |-> st, queries |-> q, e |-> e]

\* a read that raised x after making the facility queries q
ReadFails(e, x, q) == [exc |-> x, st |-> NotInstalledStatus, queries |-> q, e |-> e]

\* linux.py: service_file_path.exists(), systemctl is-enabled, systemctl is-active;
\* only the return codes are looked at
Linux_status(e) == IF ~e.unit THEN Read(e, NotInstalledStatus, <<"exists">>)
                   ELSE Read(e, ServiceStatus("INSTALLED",
                               IF e.enab = "enabled" /\ e.fault = "none" THEN "ENABLED" ELSE "DISABLED",
                               IF e.active /\ e.fault # "query_fail" THEN "RUNNING" ELSE "NOT_RUNNING"),
                             <<"exists", "is-enabled", "is-active">>)

\* MacOS_status without the early return on a missing plist: the enablement
\* and running queries are made for a service that is not installed
MacOS_status_NoEarlyReturn(e) ==
    IF e.fault = "enab_unknown" THEN ReadFails(e, ServiceOperationError("getStatus"), <<"exists", "print-disabled">>)
    ELSE Read(e, ServiceStatus(IF e.unit THEN "INSTALLED" ELSE "NOT_INSTALLED",
                               IF e.fault = "query_fail" THEN "DISABLED"
                               ELSE IF e.enab = "disabled" THEN "DISABLED" ELSE "ENABLED",
                               IF e.fault # "query_fail" /\ e.loaded /\ e.active THEN "RUNNING" ELSE "NOT_RUNNING"),
              <<"exists", "print-disabled", "print">>)

\* macos.py: plist_path.exists(), launchctl print-disabled, launchctl print
MacOS_status(e) == IF ~e.unit THEN Read(e, NotInstalledStatus, <<"exists">>)
                   ELSE IF e.fault = "enab_unknown" THEN ReadFails(e, ServiceOperationError("getStatus"), <<"exists", "print-disabled">>)
                   ELSE Read(e, ServiceStatus("INSTALLED",
                               IF e.fault = "query_fail" THEN "DISABLED"
                               ELSE IF e.enab = "disabled" THEN "DISABLED" ELSE "ENABLED",
                               IF e.fault # "query_fail" /\ e.loaded /\ e.active THEN "RUNNING" ELSE "NOT_RUNNING"),
                             <<"exists", "print-disabled", "print">>)

\* Windows_status that unlinks service.pid when the pid in it is dead
Windows_status_CleansMarker(e) ==
    IF ~e.unit THEN Read(e, NotInstalledStatus, <<"query-xml">>)
    ELSE IF e.fault = "query_fail" THEN Read(e, ServiceStatus("INSTALLED", "DISABLED", "NOT_RUNNING"), <<"query-xml", "parse-xml">>)
    ELSE Read(IF e.marker # 0 /\ ~pid_exists(e, e.marker) THEN [e EXCEPT !.marker = 0] ELSE e,
              ServiceStatus("INSTALLED",
                            IF e.enab # "disabled" \/ e.fault = "enab_unknown" THEN "ENABLED" ELSE "DISABLED",
                            IF e.marker # 0 /\ pid_exists(e, e.marker) THEN "RUNNING" ELSE "NOT_RUNNING"),
              <<"query-xml", "parse-xml", "pid-file">>)

\* windows.py: schtasks /Query /XML, the Settings/Enabled node, service.pid;
\* every exception after the query is caught and the triple built so far returned
Windows_status(e) == IF ~e.unit THEN Read(e, NotInstalledStatus, <<"query-xml">>)
                     ELSE IF e.fault = "query_fail" THEN Read(e, ServiceStatus("INSTALLED", "DISABLED", "NOT_RUNNING"), <<"query-xml", "parse-xml">>)
                     ELSE Read(e, ServiceStatus("INSTALLED",
                                 IF e.enab # "disabled" \/ e.fault = "enab_unknown" THEN "ENABLED" ELSE "DISABLED",
                                 IF e.marker # 0 /\ pid_exists(e, e.marker) THEN "RUNNING" ELSE "NOT_RUNNING"),
                               <<"query-xml", "parse-xml", "pid-file">>)

status(b, e) == CASE b = "linux" -> Linux_status(e)
                  [] b = "macos" -> MacOS_status(e)
                  [] OTHER -> Windows_status(e)

(***************************************************************************)
(* version: read back from the metadata embedded in the unit definition.   *)
(***************************************************************************)
RECURSIVE TakeWhile(_, _)
\* the longest prefix of s whose characters are all in cls
TakeWhile(s, cls) == IF s = <<>> \/ Head(s) \notin cls THEN <<>>
                     ELSE <<Head(s)>> \o TakeWhile(Tail(s), cls)

Drop(s, n) == SubSeq(s, n + 1, Len(s))

RECURSIVE DotGroups(_)
\* (?:\.[\d]+)* : greedy repetition of a dot followed by at least one digit
DotGroups(s) == IF Len(s) >= 2 /\ s[1] = "." /\ s[2] \in Digits
                THEN LET d == TakeWhile(Tail(s), Digits)
                     IN <<".">> \o d \o DotGroups(Drop(s, 1 + Len(d)))
                ELSE <<>>

\* windows.py: group 1 of version=([\d]+(?:\.[\d]+)*(?:[a-zA-Z0-9._-]*)?) on the
\* text that follows "version=" in the task description; <<>> when no match
WindowsVersionMatch(s) == LET d == TakeWhile(s, Digits)
                              g == DotGroups(Drop(s, Len(d)))
                              t == TakeWhile(Drop(s, Len(d) + Len(g)), Digits \cup Letters \cup {".", "_", "-"})
                          IN IF d = <<>> THEN <<>> ELSE d \o g \o t

\* linux.py: group 1 of Environment="VERSION=([^"]+)" on the unit file
LinuxVersionMatch(s) == TakeWhile(s, Digits \cup Letters \cup {".", "_", "-", "+", "!"})

RECURSIVE StripZeros(_)
StripZeros(s) == IF Len(s) >= 3 /\ s[Len(s)] = "0" /\ s[Len(s) - 1] = "." THEN StripZeros(SubSeq(s, 1, Len(s) - 2)) ELSE s

\* packaging.version.Version(text): two versions are equal when their parsed
\* keys are; trailing zero components of a plain release do not count
Version(s) == IF \A i \in 1..Len(s) : s[i] \in Digits \cup {"."} THEN StripZeros(s) ELSE s

\* A version query yields [exc, v]; v = NoVersion stands for None.
Linux_version(e) == IF ~e.unit THEN [exc |-> NoError, v |-> NoVersion]
                    ELSE [exc |-> NoError, v |-> Version(LinuxVersionMatch(e.ver))]

MacOS_version(e) == IF ~e.unit THEN [exc |-> NoError, v |-> NoVersion]
                    ELSE IF e.ver = NoVersion THEN [exc |-> ServiceOperationError("getVersion"), v |-> NoVersion]
                    ELSE [exc |-> NoError, v |-> Version(e.ver)]

Windows_version(e) == IF ~e.unit THEN [exc |-> NoError, v |-> NoVersion]
                      ELSE [exc |-> NoError, v |-> Version(WindowsVersionMatch(e.ver))]

version(b, e) == CASE b = "linux" -> Linux_version(e)
                   [] b = "macos" -> MacOS_version(e)
                   [] OTHER -> Windows_version(e)

(***************************************************************************)
(* Results of operations, and the outcome of the native calls they make.   *)
(* An operation yields [e, exc, calls]: the facility afterwards, the       *)
(* exception raised (NoError when it returns), and the state-changing      *)
(* native calls it issued, in order.                                       *)
(* The outcome c of the native calls of one operation is c.fail: the kinds  *)
(* of native call that return a non-success result, and "timeout" when the  *)
(* effect of an accepted start or stop command does not show in status      *)
(* before the convergence poll gives up.                                    *)
(***************************************************************************)
\* the status sample from which an accepted command's effect is visible
Delay(c) == IF "timeout" \in c.fail THEN MaxSamples ELSE 0

R(e, exc, calls) == [e |-> e, exc |-> exc, calls |-> calls]

Return(e) == R(e, NoError, <<>>)

\* the result of step n run after the steps r
Then(r, n) == R(n.e, n.exc, r.calls \o n.calls)

\* run step F on the result of the steps before it, unless they raised
Bind(r, F(_)) == IF r.exc # NoError THEN r ELSE Then(r, F(r.e))

\* one native call of the given kind: raises x when it fails, else leaves e2
Native(e, e2, kind, c, x) == IF kind \in c.fail THEN R(e, x, <<kind>>) ELSE R(e2, NoError, <<kind>>)

RECURSIVE PollFrom(_, _, _, _, _, _)
PollFrom(i, b, eSlow, eConv, delay, target) ==
    IF i >= MaxSamples THEN [ok |-> FALSE, exc |-> NoError]
    ELSE LET s == status(b, IF i >= delay THEN eConv ELSE eSlow)
         IN IF s.exc # NoError THEN [ok |-> FALSE, exc |-> s.exc]
            ELSE IF s.st.running_status = target THEN [ok |-> TRUE, exc |-> NoError]
            ELSE PollFrom(i + 1, b, eSlow, eConv, delay, target)

\* a poller that reports success when the timeout elapses
wait_for_service_status_TrueOnTimeout(b, eSlow, eConv, delay, target) ==
    [e |-> IF delay < MaxSamples THEN eConv ELSE eSlow, ok |-> TRUE, exc |-> NoError]

\* _wait_for_service_status with the predicate running_status == target: samples
\* status at a fixed interval until it holds or the timeout elapses
wait_for_service_status(b, eSlow, eConv, delay, target) ==
    [e |-> IF delay < MaxSamples THEN eConv ELSE eSlow] @@ PollFrom(0, b, eSlow, eConv, delay, target)

\* the caller raises x when the poll w came back False
Checked(w, x, calls) == R(w.e, IF w.exc # NoError THEN w.exc ELSE IF ~w.ok THEN x ELSE NoError, calls)

\* the caller does not look at what the poll w came back with
Unchecked(w, calls) == R(w.e, w.exc, calls)

(***************************************************************************)
(* linux.py                                                                 *)
(***************************************************************************)
\* replacement fields of SYSTEMD_SERVICE_TEMPLATE (linux_templates.py)
SYSTEMD_SERVICE_TEMPLATE == {"service_name", "exec_start", "working_directory", "stdout_log", "stderr_log", "version"}

\* keyword arguments linux.py passes to SYSTEMD_SERVICE_TEMPLATE.format
LinuxFormatArgs == {"service_name", "exec_start", "working_directory", "version"}

\* str.format raises KeyError for a replacement field without an argument
FormatRaises(fields, args) == ~(fields \subseteq args)

\* Linux_stop that stops the unit with "systemctl disable --now"
Linux_stop_DisableNow(e, strict, c) ==
    LET s == Linux_status(e)
    IN IF s.exc # NoError THEN R(e, s.exc, <<>>)
       ELSE IF s.st.installation_status = "NOT_INSTALLED" THEN R(e, Raise("ServiceNotInstalledError"), <<>>)
       ELSE IF s.st.running_status = "NOT_RUNNING"
            THEN (IF strict THEN R(e, Raise("ServiceAlreadyStoppedError"), <<>>) ELSE Return(e))
       ELSE IF "stop" \in c.fail THEN R(e, ServiceOperationError("stop"), <<"stop">>)
       ELSE Checked(wait_for_service_status("linux", e, [e EXCEPT !.loaded = FALSE, !.active = FALSE, !.enab = "disabled"], Delay(c), "NOT_RUNNING"),
                    ServiceOperationError("stop"), <<"stop">>)

Linux_stop(e, strict, c) ==
    LET s == Linux_status(e)
    IN IF s.exc # NoError THEN R(e, s.exc, <<>>)
       ELSE IF s.st.installation_status = "NOT_INSTALLED" THEN R(e, Raise("ServiceNotInstalledError"), <<>>)
       ELSE IF s.st.running_status = "NOT_RUNNING"
            THEN (IF strict THEN R(e, Raise("ServiceAlreadyStoppedError"), <<>>) ELSE Return(e))
       ELSE IF "stop" \in c.fail THEN R(e, ServiceOperationError("stop"), <<"stop">>)
       ELSE Checked(wait_for_service_status("linux", e, [e EXCEPT !.loaded = FALSE, !.active = FALSE], Delay(c), "NOT_RUNNING"),
                    ServiceOperationError("stop"), <<"stop">>)

Linux_enable(e, strict, c) ==
    LET s == Linux_status(e)
    IN IF s.exc # NoError THEN R(e, s.exc, <<>>)
       ELSE IF s.st.installation_status = "NOT_INSTALLED" THEN R(e, Raise("ServiceNotInstalledError"), <<>>)
       ELSE IF s.st.enablement_status = "ENABLED"
            THEN (IF strict THEN R(e, Raise("ServiceAlreadyEnabledError"), <<>>) ELSE Return(e))
       ELSE Native(e, [e EXCEPT !.enab = "enabled"], "enable", c, ServiceOperationError("enable"))

Linux_disable(e, strict, c) ==
    LET s == Linux_status(e)
    IN IF s.exc # NoError THEN R(e, s.exc, <<>>)
       ELSE IF s.st.installation_status = "NOT_INSTALLED" THEN R(e, Raise("ServiceNotInstalledError"), <<>>)
       ELSE IF s.st.enablement_status = "DISABLED"
            THEN (IF strict THEN R(e, Raise("ServiceAlreadyDisabledError"), <<>>) ELSE Return(e))
       ELSE LET r1 == IF s.st.running_status = "RUNNING" THEN Linux_stop(e, FALSE, c) ELSE Return(e)
            IN Bind(r1, LAMBDA e1 : Native(e1, [e1 EXCEPT !.enab = "disabled"], "disable", c, ServiceOperationError("disable")))

Linux_start(e, strict, c) ==
    LET s == Linux_status(e)
    IN IF s.exc # NoError THEN R(e, s.exc, <<>>)
       ELSE IF s.st.installation_status = "NOT_INSTALLED" THEN R(e, Raise("ServiceNotInstalledError"), <<>>)
       ELSE LET r1 == IF s.st.enablement_status = "DISABLED" THEN Linux_enable(e, FALSE, c) ELSE Return(e)
                Go(e1) == IF s.st.running_status = "RUNNING"
                          THEN (IF strict THEN R(e1, Raise("ServiceAlreadyRunningError"), <<>>) ELSE Return(e1))
                          ELSE IF "start" \in c.fail THEN R(e1, ServiceOperationError("start"), <<"start">>)
                          ELSE Checked(wait_for_service_status("linux", [e1 EXCEPT !.loaded = TRUE], [e1 EXCEPT !.loaded = TRUE, !.active = TRUE], Delay(c), "RUNNING"),
                                       ServiceOperationError("start"), <<"start">>)
            IN Bind(r1, Go)

\* uninstall that goes on after a failed stop
Linux_uninstall_IgnoresStop(e, strict, c) ==
    LET s == Linux_status(e)
    IN IF s.exc # NoError THEN R(e, s.exc, <<>>)
       ELSE IF s.st.installation_status = "NOT_INSTALLED"
            THEN (IF strict THEN R(e, Raise("ServiceNotInstalledError"), <<>>) ELSE Return(e))
       ELSE LET Stop(e0) == Linux_stop(e0, FALSE, c)
                r1 == IF s.st.running_status = "RUNNING" THEN R(Stop(e).e, NoError, Stop(e).calls) ELSE Return(e)
                r2 == Bind(r1, LAMBDA e1 : IF s.st.enablement_status = "ENABLED" THEN Linux_disable(e1, FALSE, c) ELSE Return(e1))
                r3 == Bind(r2, LAMBDA e2 : IF e2.unit THEN Native(e2, [e2 EXCEPT !.unit = FALSE, !.ver = NoVersion], "remove_unit", c, Raise("OSError")) ELSE Return(e2))
                r4 == Bind(r3, LAMBDA e3 : R(e3, NoError, <<"daemon-reload">>))
            IN Bind(r4, LAMBDA e4 : IF e4.dir THEN Native(e4, [e4 EXCEPT !.dir = FALSE], "rmtree", c, Raise("OSError")) ELSE Return(e4))

Linux_uninstall(e, strict, c) ==
    LET s == Linux_status(e)
    IN IF s.exc # NoError THEN R(e, s.exc, <<>>)
       ELSE IF s.st.installation_status = "NOT_INSTALLED"
            THEN (IF strict THEN R(e, Raise("ServiceNotInstalledError"), <<>>) ELSE Return(e))
       ELSE LET r1 == IF s.st.running_status = "RUNNING" THEN Linux_stop(e, FALSE, c) ELSE Return(e)
                r2 == Bind(r1, LAMBDA e1 : IF s.st.enablement_status = "ENABLED" THEN Linux_disable(e1, FALSE, c) ELSE Return(e1))
                r3 == Bind(r2, LAMBDA e2 : IF e2.unit THEN Native(e2, [e2 EXCEPT !.unit = FALSE, !.ver = NoVersion], "remove_unit", c, Raise("OSError")) ELSE Return(e2))
                r4 == Bind(r3, LAMBDA e3 : R(e3, NoError, <<"daemon-reload">>))
            IN Bind(r4, LAMBDA e4 : IF e4.dir THEN Native(e4, [e4 EXCEPT !.dir = FALSE], "rmtree", c, Raise("OSError")) ELSE Return(e4))

\* except Exception: the rollback uninstall runs inside try/except pass, then
\* a ServiceOperationError is re-raised and anything else becomes one
Linux_rollback(t, rb) == R(rb.e, IF t.exc.type = "ServiceOperationError" THEN t.exc ELSE ServiceOperationError("install"), t.calls \o rb.calls)

Linux_except(t, c) == IF t.exc = NoError THEN t ELSE Linux_rollback(t, Linux_uninstall(t.e, FALSE, c))

\* the try block of install: the steps up to the first one that raises
Linux_try(e, v, c) ==
    LET t1 == Native(e, [e EXCEPT !.dir = TRUE], "makedirs", c, Raise("OSError"))
        t2 == Bind(t1, LAMBDA e1 : IF FormatRaises(SYSTEMD_SERVICE_TEMPLATE, LinuxFormatArgs) THEN R(e1, Raise("KeyError"), <<>>) ELSE Return(e1))
        t3 == Bind(t2, LAMBDA e2 : Native(e2, [e2 EXCEPT !.unit = TRUE, !.ver = v], "write_unit", c, Raise("OSError")))
        t4 == Bind(t3, LAMBDA e3 : Native(e3, e3, "daemon-reload", c, ServiceOperationError("install")))
        t5 == Bind(t4, LAMBDA e4 : Linux_enable(e4, FALSE, c))
    IN Bind(t5, LAMBDA e5 : Linux_start(e5, FALSE, c))

Linux_install(e, v, strict, c) ==
    LET s == Linux_status(e)
    IN IF s.exc # NoError THEN R(e, s.exc, <<>>)
       ELSE IF s.st.installation_status = "INSTALLED"
            THEN (IF strict THEN R(e, Raise("ServiceAlreadyInstalledError"), <<>>) ELSE Return(e))
       ELSE Linux_except(Linux_try(e, v, c), c)

(***************************************************************************)
(* macos.py                                                                 *)
(***************************************************************************)
MacOS_stop(e, strict, c) ==
    LET s == MacOS_status(e)
    IN IF s.exc # NoError THEN R(e, s.exc, <<>>)
       ELSE IF s.st.running_status = "NOT_RUNNING"
            THEN (IF strict THEN R(e, Raise("ServiceAlreadyStoppedError"), <<>>) ELSE Return(e))
       ELSE IF "stop" \in c.fail THEN R(e, ServiceOperationError("stop"), <<"stop">>)
       ELSE Unchecked(wait_for_service_status("macos", e, [e EXCEPT !.loaded = FALSE, !.active = FALSE], Delay(c), "NOT_RUNNING"), <<"stop">>)

\* no installation check: the enablement of the not-installed triple is DISABLED
MacOS_enable(e, strict, c) ==
    LET s == MacOS_status(e)
    IN IF s.exc # NoError THEN R(e, s.exc, <<>>)
       ELSE IF s.st.enablement_status = "ENABLED"
            THEN (IF strict THEN R(e, Raise("ServiceAlreadyEnabledError"), <<>>) ELSE Return(e))
       ELSE Native(e, [e EXCEPT !.enab = "enabled"], "enable", c, ServiceOperationError("enable"))

MacOS_disable(e, strict, c) ==
    LET AfterStop(e1) ==
            LET s == MacOS_status(e1)
            IN IF s.exc # NoError THEN R(e1, s.exc, <<>>)
               ELSE IF s.st.enablement_status = "DISABLED"
                    THEN (IF strict THEN R(e1, Raise("ServiceAlreadyDisabledError"), <<>>) ELSE Return(e1))
               ELSE Native(e1, [e1 EXCEPT !.enab = "disabled"], "disable", c, ServiceOperationError("disable"))
    IN Bind(MacOS_stop(e, FALSE, c), AfterStop)

\* launchctl bootstrap tried a third time before giving up
MacOS_bootstrap_ThreeTries(e, c) ==
    IF "start" \in c.fail \/ ~e.unit THEN R(e, ServiceOperationError("start"), <<"start", "start", "start">>)
    ELSE Unchecked(wait_for_service_status("macos", [e EXCEPT !.loaded = TRUE], [e EXCEPT !.loaded = TRUE, !.active = TRUE], Delay(c), "RUNNING"),
                   IF "start_once" \in c.fail THEN <<"start", "start">> ELSE <<"start">>)

\* launchctl bootstrap, tried twice; it cannot succeed without the plist file
MacOS_bootstrap(e, c) ==
    IF "start" \in c.fail \/ ~e.unit THEN R(e, ServiceOperationError("start"), <<"start", "start">>)
    ELSE Unchecked(wait_for_service_status("macos", [e EXCEPT !.loaded = TRUE], [e EXCEPT !.loaded = TRUE, !.active = TRUE], Delay(c), "RUNNING"),
                   IF "start_once" \in c.fail THEN <<"start", "start">> ELSE <<"start">>)

MacOS_start(e, strict, c) ==
    LET s == MacOS_status(e)
    IN IF s.exc # NoError THEN R(e, s.exc, <<>>)
       ELSE LET r1 == IF s.st.enablement_status = "DISABLED" THEN MacOS_enable(e, FALSE, c) ELSE Return(e)
                Go(e1) == IF s.st.running_status = "RUNNING"
                          THEN (IF strict THEN R(e1, Raise("ServiceAlreadyRunningError"), <<>>) ELSE Return(e1))
                          ELSE MacOS_bootstrap(e1, c)
            IN Bind(r1, Go)

\* MacOS_uninstall that removes the owned directory before the plist file
MacOS_uninstall_DirFirst(e, strict, c) ==
    LET s == MacOS_status(e)
    IN IF s.exc # NoError THEN R(e, s.exc, <<>>)
       ELSE IF s.st.installation_status = "NOT_INSTALLED"
            THEN (IF strict THEN R(e, Raise("ServiceNotInstalledError"), <<>>) ELSE Return(e))
       ELSE LET r1 == IF s.st.running_status = "RUNNING" THEN MacOS_stop(e, FALSE, c) ELSE Return(e)
                r2 == Bind(r1, LAMBDA e1 : IF s.st.enablement_status = "ENABLED" THEN MacOS_disable(e1, FALSE, c) ELSE Return(e1))
                r3 == Bind(r2, LAMBDA e3 : IF e3.dir THEN Native(e3, [e3 EXCEPT !.dir = FALSE], "rmtree", c, Raise("OSError")) ELSE Return(e3))
            IN Bind(r3, LAMBDA e2 : IF e2.unit THEN Native(e2, [e2 EXCEPT !.unit = FALSE, !.ver = NoVersion], "remove_unit", c, ServiceOperationError("uninstall")) ELSE Return(e2))

MacOS_uninstall(e, strict, c) ==
    LET s == MacOS_status(e)
    IN IF s.exc # NoError THEN R(e, s.exc, <<>>)
       ELSE IF s.st.installation_status = "NOT_INSTALLED"
            THEN (IF strict THEN R(e, Raise("ServiceNotInstalledError"), <<>>) ELSE Return(e))
       ELSE LET r1 == IF s.st.running_status = "RUNNING" THEN MacOS_stop(e, FALSE, c) ELSE Return(e)
                r2 == Bind(r1, LAMBDA e1 : IF s.st.enablement_status = "ENABLED" THEN MacOS_disable(e1, FALSE, c) ELSE Return(e1))
                r3 == Bind(r2, LAMBDA e2 : IF e2.unit THEN Native(e2, [e2 EXCEPT !.unit = FALSE, !.ver = NoVersion], "remove_unit", c, ServiceOperationError("uninstall")) ELSE Return(e2))
            IN Bind(r3, LAMBDA e3 : IF e3.dir THEN Native(e3, [e3 EXCEPT !.dir = FALSE], "rmtree", c, Raise("OSError")) ELSE Return(e3))

\* except Exception: the rollback uninstall is not guarded, so what it raises
\* replaces the exception being handled
MacOS_rollback(t, rb) == R(rb.e, IF rb.exc # NoError THEN rb.exc
                                 ELSE IF t.exc.type = "ServiceOperationError" THEN t.exc ELSE ServiceOperationError("install"),
                           t.calls \o rb.calls)

MacOS_except(t, c) == IF t.exc = NoError THEN t ELSE MacOS_rollback(t, MacOS_uninstall(t.e, FALSE, c))

\* the try block of install: the steps up to the first one that raises
MacOS_try(e, v, c) ==
    LET t1 == Native(e, [e EXCEPT !.dir = TRUE], "makedirs", c, Raise("OSError"))
        t2 == Bind(t1, LAMBDA e1 : Native(e1, [e1 EXCEPT !.unit = TRUE, !.ver = v], "write_unit", c, Raise("OSError")))
        t3 == Bind(t2, LAMBDA e2 : MacOS_enable(e2, FALSE, c))
    IN Bind(t3, LAMBDA e3 : MacOS_start(e3, FALSE, c))

MacOS_install(e, v, strict, c) ==
    LET s == MacOS_status(e)
    IN IF s.exc # NoError THEN R(e, s.exc, <<>>)
       ELSE IF s.st.installation_status = "INSTALLED"
            THEN (IF strict THEN R(e, Raise("ServiceAlreadyInstalledError"), <<>>) ELSE Return(e))
       ELSE MacOS_except(MacOS_try(e, v, c), c)

(***************************************************************************)
(* windows.py and the supervisor loop of windows_templates.py              *)
(***************************************************************************)
\* replacement fields of VBS_PROC_LAUNCHER_TEMPLATE
VBS_PROC_LAUNCHER_TEMPLATE == {"executable", "pid_file", "working_dir"}

\* keyword arguments windows.py passes to VBS_PROC_LAUNCHER_TEMPLATE.format
WindowsFormatArgs == {"executable", "pid_file", "working_dir"}

\* the loop body up to the monitor loop: Win32_Process.Create returned 0 and
\* the pid was written to service.pid
SupervisorSpawned(e) == LET p == NextPid(e)
                        IN [e EXCEPT !.procs[p] = "payload", !.child = p, !.marker = p, !.sup = "monitor"]

\* schtasks /Run: starts wscript.exe unless an instance of the task is running
\* (MultipleInstancesPolicy IgnoreNew)
TaskRun(e) == IF e.sup = "dead" THEN [e EXCEPT !.sup = "spawn"] ELSE e

\* the facility once the supervisor got far enough for status to see a payload:
\* a spawn that is due succeeded, a spawned child's pid was written
TaskRunConverged(e) == IF TaskRun(e).sup \in {"spawn", "sleep"} /\ NextPid(e) # 0 /\ e.dir THEN SupervisorSpawned(TaskRun(e))
                       ELSE IF e.sup = "write" /\ e.dir THEN [e EXCEPT !.marker = e.child, !.sup = "monitor"]
                       ELSE TaskRun(e)

\* the end of stop with the result of the final wait dropped
Windows_final_Unchecked(e) == Unchecked(wait_for_service_status("windows", e, e, 0, "NOT_RUNNING"), <<>>)

\* the end of stop: the final wait for NOT_RUNNING, a hard failure when it
\* does not converge
Windows_final(e) == Checked(wait_for_service_status("windows", e, e, 0, "NOT_RUNNING"), ServiceOperationError("stop"), <<>>)

\* step 2 of stop with the pid_exists test left out: psutil.Process raises on a
\* pid that no longer exists
Windows_kill_NoStaleTest(e, c) ==
    IF e.marker = 0 THEN Return(e)
    ELSE IF ~pid_exists(e, e.marker) THEN R(e, Raise("NoSuchProcess"), <<>>)
    ELSE Bind(Native(e, e, "kill_children", c, Raise("AccessDenied")),
              LAMBDA e1 : Native(e1, IF "timeout" \in c.fail THEN e1 ELSE [e1 EXCEPT !.procs[e1.marker] = "free"], "kill", c, Raise("AccessDenied")))

\* step 2 of stop: the process recorded in service.pid, if that pid exists, is
\* killed after its descendants; a kill that has not taken effect when stop goes
\* on ("timeout") leaves the process alive
Windows_kill(e, c) ==
    IF e.marker # 0 /\ pid_exists(e, e.marker)
    THEN Bind(Native(e, e, "kill_children", c, Raise("AccessDenied")),
              LAMBDA e1 : Native(e1, IF "timeout" \in c.fail THEN e1 ELSE [e1 EXCEPT !.procs[e1.marker] = "free"], "kill", c, Raise("AccessDenied")))
    ELSE Return(e)

\* stop that kills the recorded process before it ends the scheduled task
Windows_stop_KillFirst(e, strict, c) ==
    LET s == Windows_status(e)
    IN IF s.st.installation_status = "NOT_INSTALLED" THEN R(e, Raise("ServiceNotInstalledError"), <<>>)
       ELSE IF s.st.running_status = "NOT_RUNNING"
            THEN (IF strict THEN R(e, Raise("ServiceAlreadyStoppedError"), <<>>) ELSE Return(e))
       ELSE LET Kill(e1) == Windows_kill(e1, c)
                End(e2) == R(IF "end" \in c.fail THEN e2 ELSE [e2 EXCEPT !.sup = "dead", !.child = 0], NoError, <<"end">>)
                Cleanup(e3) == IF e3.marker # 0 THEN R(IF "unlink_marker" \in c.fail THEN e3 ELSE [e3 EXCEPT !.marker = 0], NoError, <<"unlink_marker">>)
                               ELSE Return(e3)
                Final(e4) == Windows_final(e4)
            IN Bind(Bind(Bind(Kill(e), End), Cleanup), Final)

Windows_stop(e, strict, c) ==
    LET s == Windows_status(e)
    IN IF s.st.installation_status = "NOT_INSTALLED" THEN R(e, Raise("ServiceNotInstalledError"), <<>>)
       ELSE IF s.st.running_status = "NOT_RUNNING"
            THEN (IF strict THEN R(e, Raise("ServiceAlreadyStoppedError"), <<>>) ELSE Return(e))
       ELSE LET r1 == R(IF "end" \in c.fail THEN e ELSE [e EXCEPT !.sup = "dead", !.child = 0], NoError, <<"end">>)
                Exits(e0) == Return(IF "exit" \in c.fail /\ e0.marker # 0 THEN [e0 EXCEPT !.procs[e0.marker] = "free"] ELSE e0)
                Kill(e1) == Windows_kill(e1, c)
                Cleanup(e2) == IF e2.marker # 0 THEN R(IF "unlink_marker" \in c.fail THEN e2 ELSE [e2 EXCEPT !.marker = 0], NoError, <<"unlink_marker">>)
                               ELSE Return(e2)
                Final(e3) == Windows_final(e3)
            IN Bind(Bind(Bind(Bind(r1, Exits), Kill), Cleanup), Final)

Windows_enable(e, strict, c) ==
    LET s == Windows_status(e)
    IN IF s.st.installation_status = "NOT_INSTALLED" THEN R(e, Raise("ServiceNotInstalledError"), <<>>)
       ELSE IF s.st.enablement_status = "ENABLED"
            THEN (IF strict THEN R(e, Raise("ServiceAlreadyEnabledError"), <<>>) ELSE Return(e))
       ELSE Native(e, [e EXCEPT !.enab = "enabled"], "enable", c, ServiceOperationError("enable"))

Windows_disable(e, strict, c) ==
    LET s == Windows_status(e)
    IN IF s.st.installation_status = "NOT_INSTALLED" THEN R(e, Raise("ServiceNotInstalledError"), <<>>)
       ELSE IF s.st.enablement_status = "DISABLED"
            THEN (IF strict THEN R(e, Raise("ServiceAlreadyDisabledError"), <<>>) ELSE Return(e))
       ELSE LET r1 == IF s.st.running_status = "RUNNING" THEN Windows_stop(e, FALSE, c) ELSE Return(e)
            IN Bind(r1, LAMBDA e1 : Native(e1, [e1 EXCEPT !.enab = "disabled"], "disable", c, ServiceOperationError("disable")))

Windows_start(e, strict, c) ==
    LET s == Windows_status(e)
    IN IF s.st.installation_status = "NOT_INSTALLED" THEN R(e, Raise("ServiceNotInstalledError"), <<>>)
       ELSE LET r1 == IF s.st.enablement_status = "DISABLED" THEN Windows_enable(e, FALSE, c) ELSE Return(e)
                Go(e1) == IF s.st.running_status = "RUNNING"
                          THEN (IF strict THEN R(e1, Raise("ServiceAlreadyRunningError"), <<>>) ELSE Return(e1))
                          ELSE IF "start" \in c.fail THEN R(e1, ServiceOperationError("start"), <<"start">>)
                          ELSE Unchecked(wait_for_service_status("windows", TaskRun(e1), TaskRunConverged(e1), Delay(c), "RUNNING"), <<"start">>)
            IN Bind(r1, Go)

\* Windows_uninstall that removes the owned directory but never deletes the task
Windows_uninstall_NoDelete(e, strict, c) ==
    LET s == Windows_status(e)
    IN IF s.st.installation_status = "NOT_INSTALLED"
       THEN (IF strict THEN R(e, Raise("ServiceNotInstalledError"), <<>>) ELSE Return(e))
       ELSE LET r1 == IF s.st.running_status = "RUNNING" THEN Windows_stop(e, FALSE, c) ELSE Return(e)
                r2 == Bind(r1, LAMBDA e1 : IF s.st.enablement_status = "ENABLED" THEN Windows_disable(e1, FALSE, c) ELSE Return(e1))
            IN Bind(r2, LAMBDA e3 : IF e3.dir THEN Native(e3, [e3 EXCEPT !.dir = FALSE, !.marker = 0], "rmtree", c, ServiceOperationError("uninstall")) ELSE Return(e3))

Windows_uninstall(e, strict, c) ==
    LET s == Windows_status(e)
    IN IF s.st.installation_status = "NOT_INSTALLED"
       THEN (IF strict THEN R(e, Raise("ServiceNotInstalledError"), <<>>) ELSE Return(e))
       ELSE LET r1 == IF s.st.running_status = "RUNNING" THEN Windows_stop(e, FALSE, c) ELSE Return(e)
                r2 == Bind(r1, LAMBDA e1 : IF s.st.enablement_status = "ENABLED" THEN Windows_disable(e1, FALSE, c) ELSE Return(e1))
                r3 == Bind(r2, LAMBDA e2 : Native(e2, [e2 EXCEPT !.unit = FALSE, !.ver = NoVersion, !.enab = "absent"], "remove_unit", c, ServiceOperationError("uninstall")))
            IN Bind(r3, LAMBDA e3 : IF e3.dir THEN Native(e3, [e3 EXCEPT !.dir = FALSE, !.marker = 0], "rmtree", c, ServiceOperationError("uninstall")) ELSE Return(e3))

\* no try/except around the steps: a failure leaves what was created so far
\* install that registers the task again over an installed one
Windows_install_Overwrites(e, v, strict, c) ==
    LET s == Windows_status(e)
    IN IF s.st.installation_status = "INSTALLED" /\ strict
       THEN R(e, Raise("ServiceAlreadyInstalledError"), <<>>)
       ELSE LET t1 == Native(e, [e EXCEPT !.dir = TRUE], "makedirs", c, Raise("OSError"))
                t2 == Bind(t1, LAMBDA e1 : IF FormatRaises(VBS_PROC_LAUNCHER_TEMPLATE, WindowsFormatArgs) THEN R(e1, Raise("KeyError"), <<>>) ELSE Return(e1))
                t3 == Bind(t2, LAMBDA e2 : Native(e2, e2, "write_unit", c, Raise("OSError")))
                t4 == Bind(t3, LAMBDA e3 : Native(e3, [e3 EXCEPT !.unit = TRUE, !.ver = v, !.enab = "enabled"], "register", c, ServiceOperationError("install")))
            IN Bind(t4, LAMBDA e4 : Windows_start(e4, FALSE, c))

Windows_install(e, v, strict, c) ==
    LET s == Windows_status(e)
    IN IF s.st.installation_status = "INSTALLED"
       THEN (IF strict THEN R(e, Raise("ServiceAlreadyInstalledError"), <<>>) ELSE Return(e))
       ELSE LET t1 == Native(e, [e EXCEPT !.dir = TRUE], "makedirs", c, Raise("OSError"))
                t2 == Bind(t1, LAMBDA e1 : IF FormatRaises(VBS_PROC_LAUNCHER_TEMPLATE, WindowsFormatArgs) THEN R(e1, Raise("KeyError"), <<>>) ELSE Return(e1))
                t3 == Bind(t2, LAMBDA e2 : Native(e2, e2, "write_unit", c, Raise("OSError")))
                t4 == Bind(t3, LAMBDA e3 : Native(e3, [e3 EXCEPT !.unit = TRUE, !.ver = v, !.enab = "enabled"], "register", c, ServiceOperationError("install")))
            IN Bind(t4, LAMBDA e4 : Windows_start(e4, FALSE, c))

(***************************************************************************)
(* manager.py: ServiceManager dispatches to the backend chosen at          *)
(* construction; install validates the executable first.                    *)
(***************************************************************************)
\* service_name: the empty string or a name
ServiceNames == {"", "etiket_sync"}

\* ServiceConfig.__init__: rejects an empty name, else only stores its arguments
ServiceConfig(e, service_name) ==
    IF service_name = "" THEN R(e, Raise("ValueError"), <<>>) ELSE Return(e)

\* program_arguments: the empty list, a list whose first element is an absolute
\* path missing on disk, or a list that passes the validation (a relative name or
\* an absolute path that exists)
ProgramArguments == {"empty", "abs_missing", "valid"}

\* the validation moved behind the backend call
ValidatedLate(args, r) ==
    IF r.exc # NoError THEN r
    ELSE IF args = "empty" THEN R(r.e, Raise("IndexError"), r.calls)
    ELSE IF args = "abs_missing" THEN R(r.e, Raise("FileNotFoundError"), r.calls)
    ELSE r

install_ValidatesLate(b, e, args, v, strict, c) ==
    ValidatedLate(args, CASE b = "linux" -> Linux_install(e, v, strict, c)
                          [] b = "macos" -> MacOS_install(e, v, strict, c)
                          [] OTHER -> Windows_install(e, v, strict, c))

install(b, e, args, v, strict, c) ==
    IF args = "empty" THEN R(e, Raise("IndexError"), <<>>)
    ELSE IF args = "abs_missing" THEN R(e, Raise("FileNotFoundError"), <<>>)
    ELSE CASE b = "linux" -> Linux_install(e, v, strict, c)
           [] b = "macos" -> MacOS_install(e, v, strict, c)
           [] OTHER -> Windows_install(e, v, strict, c)

uninstall(b, e, strict, c) == CASE b = "linux" -> Linux_uninstall(e, strict, c)
                                [] b = "macos" -> MacOS_uninstall(e, strict, c)
                                [] OTHER -> Windows_uninstall(e, strict, c)

enable(b, e, strict, c) == CASE b = "linux" -> Linux_enable(e, strict, c)
                             [] b = "macos" -> MacOS_enable(e, strict, c)
                             [] OTHER -> Windows_enable(e, strict, c)

disable(b, e, strict, c) == CASE b = "linux" -> Linux_disable(e, strict, c)
                              [] b = "macos" -> MacOS_disable(e, strict, c)
                              [] OTHER -> Windows_disable(e, strict, c)

start(b, e, strict, c) == CASE b = "linux" -> Linux_start(e, strict, c)
                            [] b = "macos" -> MacOS_start(e, strict, c)
                            [] OTHER -> Windows_start(e, strict, c)

stop(b, e, strict, c) == CASE b = "linux" -> Linux_stop(e, strict, c)
                           [] b = "macos" -> MacOS_stop(e, strict, c)
                           [] OTHER -> Windows_stop(e, strict, c)

(***************************************************************************)
(* Outcomes of the native calls an operation can make.                      *)
(***************************************************************************)
\* the kinds of native call each backend makes; "timeout" stands for a poll
\* that does not converge and "exit" for a payload that exits on its own
\* between the status read of stop and its read of service.pid
BackendCalls(b) == CASE b = "linux" -> {"makedirs", "write_unit", "daemon-reload", "enable", "disable", "start", "stop", "remove_unit", "rmtree", "timeout"}
                     [] b = "macos" -> {"makedirs", "write_unit", "enable", "disable", "start", "start_once", "stop", "remove_unit", "rmtree", "timeout"}
                     [] OTHER -> {"makedirs", "write_unit", "register", "enable", "disable", "start", "end", "kill_children", "kill", "unlink_marker", "remove_unit", "rmtree", "timeout", "exit"}

\* the kinds of native call an operation can reach
CallKinds(op) == CASE op = "install" -> {"makedirs", "write_unit", "register", "daemon-reload", "enable", "start", "start_once", "stop", "disable", "remove_unit", "rmtree", "timeout"}
                   [] op = "uninstall" -> {"stop", "end", "kill_children", "kill", "unlink_marker", "disable", "remove_unit", "rmtree", "timeout", "exit"}
                   [] op = "enable" -> {"enable"}
                   [] op = "disable" -> {"stop", "end", "kill_children", "kill", "unlink_marker", "disable", "timeout", "exit"}
                   [] op = "start" -> {"enable", "start", "start_once", "timeout"}
                   [] op = "stop" -> {"stop", "end", "kill_children", "kill", "unlink_marker", "timeout", "exit"}
                   [] OTHER -> {}

NoFailure == [fail |-> {}]

\* outcomes that are a matter of timing, not the failure of a call
Timing == {"timeout", "exit"}

AllOutcomes(op) == {c \in [fail : SUBSET (CallKinds(op) \cap BackendCalls(backend))] : Cardinality(c.fail \ Timing) <= MaxFaults}

\* An operation that issues no native call when none fails has no native
\* outcome to draw: its run does not depend on c.
Outcomes(op, r0) == IF r0.calls = <<>> THEN {NoFailure} ELSE AllOutcomes(op)

(***************************************************************************)
(* State                                                                    *)
(*   backend  the backend chosen by ServiceManager.__init__                 *)
(*   env      the native facility and file system                           *)
(*   last     the library call that has just returned: its inputs, the      *)
(*            status read before it, what it raised and the native calls    *)
(*            it made; NoCall once the facility has moved on                *)
(***************************************************************************)
\* what the caller of the status property sees
Observed(s) == [exc |-> s.exc, st |-> s.st]

NoCall == [op |-> "none", strict |-> FALSE, v |-> NoVersion, pre |-> Observed(Read(0, NotInstalledStatus, <<>>)), exc |-> NoError, calls |-> <<>>]

\* the record of a call that went from facility e to result r
Called(op, strict, v, e, r) == [op |-> op, strict |-> strict, v |-> v, pre |-> Observed(status(backend, e)), exc |-> r.exc, calls |-> r.calls]

\* a library call returns (or raises) with result r
Returns(op, strict, v, r) == /\ env' = r.e
                             /\ last' = Called(op, strict, v, env, r)
                             /\ UNCHANGED backend

Init == /\ backend \in Backends
        /\ env \in {CleanEnv(backend, FALSE), DeployedEnv(backend, V_1_0_0)}
        /\ last = NoCall

Install == \E args \in ProgramArguments, v \in Versions, strict \in BOOLEAN :
               \E c \in Outcomes("install", install(backend, env, args, v, strict, NoFailure)) :
                   Returns("install", strict, v, install(backend, env, args, v, strict, c))

Configure == \E service_name \in ServiceNames :
                 Returns("ServiceConfig", FALSE, NoVersion, ServiceConfig(env, service_name))

Uninstall == \E strict \in BOOLEAN : \E c \in Outcomes("uninstall", uninstall(backend, env, strict, NoFailure)) :
                 Returns("uninstall", strict, NoVersion, uninstall(backend, env, strict, c))

Enable == \E strict \in BOOLEAN : \E c \in Outcomes("enable", enable(backend, env, strict, NoFailure)) :
              Returns("enable", strict, NoVersion, enable(backend, env, strict, c))

Disable == \E strict \in BOOLEAN : \E c \in Outcomes("disable", disable(backend, env, strict, NoFailure)) :
               Returns("disable", strict, NoVersion, disable(backend, env, strict, c))

Start == \E strict \in BOOLEAN : \E c \in Outcomes("start", start(backend, env, strict, NoFailure)) :
             Returns("start", strict, NoVersion, start(backend, env, strict, c))

Stop == \E strict \in BOOLEAN : \E c \in Outcomes("stop", stop(backend, env, strict, NoFailure)) :
            Returns("stop", strict, NoVersion, stop(backend, env, strict, c))

\* the status property: the facility is left as the read left it
Observe(s) == R(s.e, s.exc, <<>>)

Status == \E s \in {status(backend, env)} : Returns("status", FALSE, NoVersion, Observe(s))

\* the version property
GetVersion == /\ last' = Called("version", FALSE, NoVersion, env, R(env, version(backend, env).exc, <<>>))
              /\ UNCHANGED <<backend, env>>

(***************************************************************************)
(* The facility's own steps, outside the library's control flow.           *)
(***************************************************************************)
\* the service process exits on its own
PayloadExit == /\ \/ /\ backend # "windows"
                     /\ env.active
                     /\ env' = [env EXCEPT !.active = FALSE]
                  \/ /\ backend = "windows"
                     /\ \E p \in Pids : /\ env.procs[p] = "payload"
                                        /\ env' = [env EXCEPT !.procs[p] = "free"]
               /\ last' = NoCall /\ UNCHANGED backend

\* Restart=always (systemd) and KeepAlive (launchd) bring a loaded service back
FacilityRestart == /\ backend # "windows"
                   /\ env.loaded /\ ~env.active /\ env.unit
                   /\ env' = [env EXCEPT !.active = TRUE]
                   /\ last' = NoCall /\ UNCHANGED backend

\* Win32_Process.Create returned 0: a new payload runs under a fresh pid
Created == /\ NextPid(env) # 0 /\ env.dir
           /\ env' = [env EXCEPT !.procs[NextPid(env)] = "payload", !.child = NextPid(env), !.sup = "write"]

\* a supervisor that writes service.pid whether or not the spawn succeeded
SupervisorSpawn_WritesAnyway == /\ backend = "windows"
                                /\ env.sup = "spawn"
                                /\ \/ Created
                                   \/ env' = [env EXCEPT !.sup = "sleep", !.marker = 1]
                                /\ last' = NoCall /\ UNCHANGED backend

\* Win32_Process.Create in the supervisor loop: a child, or a non-zero return
SupervisorSpawn == /\ backend = "windows"
                   /\ env.sup = "spawn"
                   /\ \/ Created
                      \/ env' = [env EXCEPT !.sup = "sleep"]
                   /\ last' = NoCall /\ UNCHANGED backend

\* the supervisor entering its monitor loop without writing service.pid
SupervisorWrite_NoMarker == /\ backend = "windows"
                            /\ env.sup = "write"
                            /\ env' = IF env.dir THEN [env EXCEPT !.sup = "monitor"]
                                      ELSE [env EXCEPT !.sup = "dead", !.child = 0]
                            /\ last' = NoCall /\ UNCHANGED backend

\* CreateTextFile(strPidFile): the script dies when the directory is gone
SupervisorWrite == /\ backend = "windows"
                   /\ env.sup = "write"
                   /\ env' = IF env.dir THEN [env EXCEPT !.marker = env.child, !.sup = "monitor"]
                             ELSE [env EXCEPT !.sup = "dead", !.child = 0]
                   /\ last' = NoCall /\ UNCHANGED backend

\* Do While ProcessExists(intPID): left when no process holds the pid
SupervisorMonitor == /\ backend = "windows"
                     /\ env.sup = "monitor"
                     /\ ~pid_exists(env, env.child)
                     /\ env' = [env EXCEPT !.sup = "reap"]
                     /\ last' = NoCall /\ UNCHANGED backend

\* the supervisor going to its throttle sleep without deleting service.pid
SupervisorReap_KeepsMarker == /\ backend = "windows"
                              /\ env.sup = "reap"
                              /\ env' = [env EXCEPT !.sup = "sleep"]
                              /\ last' = NoCall /\ UNCHANGED backend

\* the supervisor respawning right after the cleanup, without the throttle sleep
SupervisorReap_NoThrottle == /\ backend = "windows"
                             /\ env.sup = "reap"
                             /\ env' = [env EXCEPT !.marker = 0, !.sup = "spawn"]
                             /\ last' = NoCall /\ UNCHANGED backend

\* delete service.pid if it exists, then start the throttle sleep
SupervisorReap == /\ backend = "windows"
                  /\ env.sup = "reap"
                  /\ env' = [env EXCEPT !.marker = 0, !.sup = "sleep"]
                  /\ last' = NoCall /\ UNCHANGED backend

\* WScript.Sleep intThrottleSeconds * 1000 is over
SupervisorWake == /\ backend = "windows"
                  /\ env.sup = "sleep"
                  /\ env' = [env EXCEPT !.sup = "spawn"]
                  /\ last' = NoCall /\ UNCHANGED backend

\* an unrelated process receives a free process id, or exits
ForeignProcess == /\ backend = "windows"
                  /\ \/ /\ NextPid(env) # 0
                        /\ \A p \in Pids : env.procs[p] # "foreign"
                        /\ env' = [env EXCEPT !.procs[NextPid(env)] = "foreign"]
                     \/ \E p \in Pids : /\ env.procs[p] = "foreign"
                                        /\ env' = [env EXCEPT !.procs[p] = "free"]
                  /\ last' = NoCall /\ UNCHANGED backend

\* the facility's answers to status queries degrade, or recover
FacilityFault == /\ \E f \in Faults : f # env.fault /\ env' = [env EXCEPT !.fault = f]
                 /\ last' = NoCall /\ UNCHANGED backend

Next == \/ Configure
        \/ Install
        \/ Uninstall
        \/ Enable
        \/ Disable
        \/ Start
        \/ Stop
        \/ Status
        \/ GetVersion
        \/ PayloadExit
        \/ FacilityRestart
        \/ SupervisorSpawn
        \/ SupervisorWrite
        \/ SupervisorMonitor
        \/ SupervisorReap
        \/ SupervisorWake

\* the library on a facility whose status queries always answer properly and
\* whose process ids no unrelated process takes
Spec == Init /\ [][Next]_vars

\* The supervisor script is a running process: each step of its loop that is
\* possible is eventually taken (the monitor loop polls every 200 ms, the
\* throttle sleep ends, Win32_Process.Create and CreateTextFile return).
SupervisorFairness == /\ WF_vars(SupervisorSpawn)
                      /\ WF_vars(SupervisorWrite)
                      /\ WF_vars(SupervisorMonitor)
                      /\ WF_vars(SupervisorReap)
                      /\ WF_vars(SupervisorWake)

SpecLive == Init /\ [][Next]_vars /\ SupervisorFairness

\* a spawn that can succeed does not fail forever
SpawnSucceeds == backend = "windows" /\ env.sup = "spawn" /\ Created /\ last' = NoCall /\ UNCHANGED backend

SpecRestart == SpecLive /\ SF_vars(SpawnSucceeds)

NextShared == \/ Next
              \/ ForeignProcess

\* the library on a host where unrelated processes come and go
SpecShared == Init /\ [][NextShared]_vars

NextDegraded == \/ Next
                \/ FacilityFault

\* the library on a facility whose status queries may degrade
SpecDegraded == Init /\ [][NextDegraded]_vars

(***************************************************************************)
(* Properties.  At a state where last.op names a library call, that call   *)
(* has just returned: last.pre is the status read before it, and the       *)
(* status and version read next are PostStatus and PostVersion.            *)
(***************************************************************************)
PostStatus == Observed(status(backend, env))

PostVersion == version(backend, env)

Running == [exc |-> NoError, st |-> ServiceStatus("INSTALLED", "ENABLED", "RUNNING")]

Absent == [exc |-> NoError, st |-> ServiceStatus("NOT_INSTALLED", "DISABLED", "NOT_RUNNING")]

\* the install that has just returned started from NOT_INSTALLED and did not raise
Installed == /\ last.op = "install"
             /\ last.exc = NoError
             /\ last.pre.st.installation_status = "NOT_INSTALLED"

\* C1: in every backend, an install called on a service whose status is
\* NOT_INSTALLED that returns without raising is followed by a status read of
\* (INSTALLED, ENABLED, RUNNING), in every cycle of installs and uninstalls.
C1_InstallYieldsRunning == Installed => PostStatus = Running

\* C2: after a successful install(args, v) the version query returns a version
\* equal to v, read back from the metadata embedded in the unit definition.
C2_VersionRoundTrip == Installed => PostVersion = [exc |-> NoError, v |-> Version(last.v)]

\* C3: after uninstall returns without raising, the status read is
\* (NOT_INSTALLED, DISABLED, NOT_RUNNING), whatever the state before the call.
C3_UninstallTotal == (last.op = "uninstall" /\ last.exc = NoError) => PostStatus = Absent

\* an uninstall of a running, enabled service has returned normally
C3_Witness == /\ last.op = "uninstall"
              /\ last.exc = NoError
              /\ last.pre = Running
              /\ last.calls # <<>>

\* C4: a non-strict start on an already-running service, and a non-strict enable
\* on an already-enabled service, never changes the status triple and never raises.
C4_StartEnableIdempotent ==
    (/\ ~last.strict
     /\ \/ last.op = "start" /\ last.pre.st.running_status = "RUNNING"
        \/ last.op = "enable" /\ last.pre.st.enablement_status = "ENABLED")
    => (last.exc = NoError /\ PostStatus = last.pre)

\* C5: on an installed service, a non-strict stop that directly follows a
\* non-strict stop which returned (and likewise a disable that follows a disable)
\* raises nothing and leaves the status triple as the first call left it.
C5_StopDisableIdempotent ==
    [][(/\ last.op \in {"stop", "disable"}
        /\ ~last.strict
        /\ last.exc = NoError
        /\ last.pre.st.installation_status = "INSTALLED"
        /\ last'.op = last.op
        /\ ~last'.strict)
       => (last'.exc = NoError /\ PostStatus' = PostStatus)]_vars

\* the precondition conflict each operation reports in strict mode
Conflict(op) == CASE op = "install" -> "ServiceAlreadyInstalledError"
                  [] op = "uninstall" -> "ServiceNotInstalledError"
                  [] op = "enable" -> "ServiceAlreadyEnabledError"
                  [] op = "disable" -> "ServiceAlreadyDisabledError"
                  [] op = "start" -> "ServiceAlreadyRunningError"
                  [] OTHER -> "ServiceAlreadyStoppedError"

\* the operation op called now, with every native call succeeding
Call(op, strict) == CASE op = "install" -> install(backend, env, "valid", V_1_0_0, strict, NoFailure)
                      [] op = "uninstall" -> uninstall(backend, env, strict, NoFailure)
                      [] op = "enable" -> enable(backend, env, strict, NoFailure)
                      [] op = "disable" -> disable(backend, env, strict, NoFailure)
                      [] op = "start" -> start(backend, env, strict, NoFailure)
                      [] OTHER -> stop(backend, env, strict, NoFailure)

\* the call changed nothing: it returned without issuing a native call
NoOp(r) == r.exc = NoError /\ r.calls = <<>> /\ r.e = env

\* C6: for each of install, uninstall, enable, disable, start and stop, and in
\* every state, the strict call raises the matching precondition conflict
\* exactly when the non-strict call in that state would have been a no-op.
C6_StrictSymmetry ==
    \A op \in {"install", "uninstall", "enable", "disable", "start", "stop"} :
        (Call(op, TRUE).exc = Raise(Conflict(op))) <=> NoOp(Call(op, FALSE))

\* C7: in every backend, enable, disable, start and stop called on a service
\* that is not installed raise ServiceNotInstalledError, whatever the strict
\* flag, and issue no state-changing native call.
C7_NotInstalledRaises ==
    (last.op \in {"enable", "disable", "start", "stop"} /\ last.pre.st.installation_status = "NOT_INSTALLED")
    => (last.exc = Raise("ServiceNotInstalledError") /\ last.calls = <<>>)

\* a status read that returned s kept the convention for a missing unit
Convention(s) ==
    /\ (s.exc = NoError /\ s.st.installation_status = "NOT_INSTALLED")
           => (s.st.enablement_status = "DISABLED" /\ s.st.running_status = "NOT_RUNNING")
    /\ ~env.unit => \A i \in DOMAIN s.queries : s.queries[i] \in {"exists", "query-xml"}

\* C8: every value status returns, in every backend and every reachable state,
\* that has installation NOT_INSTALLED also has enablement DISABLED and running
\* NOT_RUNNING; when the unit is absent only its existence is queried.
C8_NotInstalledConvention == Convention(status(backend, env))

\* status has been read while the unit is absent although the facility holds
\* no disabled record for the service (so an enablement query would not say DISABLED)
C8_Witness == /\ last.op = "status"
              /\ last.exc = NoError
              /\ ~env.unit
              /\ env.enab # "disabled"

\* C9: reading status never changes the installed unit, the enablement flag,
\* the running state, the marker file or the owned directory.
C9_StatusIsPure == [][last'.op = "status" => env' = env]_vars

\* status has been read on an installed Windows service whose marker file names
\* a process that no longer exists
C9_Witness == /\ last.op = "status"
              /\ env.unit
              /\ env.marker # 0
              /\ ~pid_exists(env, env.marker)

\* C10: in every backend, when the facility's response for an installed service
\* cannot be classified, status signals a status-query failure instead of
\* returning a defaulted enablement or running value.
C10_UnclassifiedRaises ==
    (last.op = "status" /\ env.unit /\ env.fault # "none")
    => last.exc = ServiceOperationError("getStatus")

\* the native calls that stop a service: systemctl stop, launchctl bootout,
\* schtasks /End, killing the recorded process, deleting service.pid
StopCalls == {"stop", "end", "kill_children", "kill", "unlink_marker"}

\* some call of kind in A was issued
Issued(calls, A) == \E i \in DOMAIN calls : calls[i] \in A

\* every call of a kind in A was issued before every call of a kind in B
Before(calls, A, B) == \A i, j \in DOMAIN calls : (calls[i] \in A /\ calls[j] \in B) => i < j

Stopped == [exc |-> NoError, st |-> ServiceStatus("INSTALLED", "DISABLED", "NOT_RUNNING")]

\* C11: disable called on an installed, enabled, running service that returns
\* without raising leaves (INSTALLED, DISABLED, NOT_RUNNING), and the stop is
\* performed before the native disable call, in every disable/start cycle.
C11_DisableStops ==
    (last.op = "disable" /\ last.pre = Running /\ last.exc = NoError)
    => /\ PostStatus = Stopped
       /\ Issued(last.calls, StopCalls)
       /\ Before(last.calls, StopCalls, {"disable"})

\* the position of a native call in the order stop, disable, remove the unit
\* definition (and reload the facility), remove the owned directory
Rank(kind) == CASE kind \in StopCalls -> 1
                [] kind = "disable" -> 2
                [] kind \in {"remove_unit", "daemon-reload"} -> 3
                [] OTHER -> 4

\* C12: uninstall called on a running and enabled service performs its steps in
\* the order stop, disable, remove the unit definition, remove the owned
\* directory: the directory is never removed before the unit definition, and
\* neither is removed before stop and disable have been performed.
C12_UninstallOrder ==
    (last.op = "uninstall" /\ last.pre = Running)
    => /\ \A i, j \in DOMAIN last.calls : i < j => Rank(last.calls[i]) <= Rank(last.calls[j])
       /\ Issued(last.calls, {"remove_unit", "rmtree"})
              => (Issued(last.calls, StopCalls) /\ Issued(last.calls, {"disable"}))
       /\ Issued(last.calls, {"rmtree"}) => Issued(last.calls, {"remove_unit"})

\* an uninstall of a running, enabled service went through all four steps
C12_Witness == /\ last.op = "uninstall"
               /\ last.pre = Running
               /\ Issued(last.calls, StopCalls)
               /\ Issued(last.calls, {"disable"})
               /\ Issued(last.calls, {"remove_unit"})
               /\ Issued(last.calls, {"rmtree"})

\* C13: start called on an installed, disabled, stopped service issues the
\* native enable call before the native start call, and when it returns
\* without raising the status is (INSTALLED, ENABLED, RUNNING).
C13_StartEnablesFirst ==
    (last.op = "start" /\ last.pre = Stopped)
    => /\ Before(last.calls, {"enable"}, {"start"})
       /\ Issued(last.calls, {"start"}) => Issued(last.calls, {"enable"})
       /\ last.exc = NoError => (PostStatus = Running /\ Issued(last.calls, {"start"}))

\* C14: for every installed state, after stop (whether it stopped the service,
\* was a no-op or raised) installation is still INSTALLED and enablement
\* equals its value before the call.
C14_StopKeepsEnablement ==
    (last.op = "stop" /\ last.pre.st.installation_status = "INSTALLED")
    => /\ PostStatus.st.installation_status = "INSTALLED"
       /\ PostStatus.st.enablement_status = last.pre.st.enablement_status

\* a stop has brought a running service to NOT_RUNNING
C14_Witness == /\ last.op = "stop"
               /\ last.pre = Running
               /\ last.exc = NoError
               /\ PostStatus.st.running_status = "NOT_RUNNING"

\* C15: in every backend a convergence poll that comes back false makes start
\* (resp. stop) raise: start never returns normally while the status read is
\* NOT_RUNNING, and stop never returns normally while it is RUNNING.
C15_PollFailureRaises ==
    /\ (last.op = "start" /\ last.exc = NoError) => PostStatus.st.running_status = "RUNNING"
    /\ (last.op = "stop" /\ last.exc = NoError) => PostStatus.st.running_status = "NOT_RUNNING"

\* C16: in every backend, when a step of install fails a full uninstall is
\* attempted before install raises, so that when install raises the status is
\* (NOT_INSTALLED, DISABLED, NOT_RUNNING) and no unit definition remains.
C16_InstallRollsBack ==
    (last.op = "install" /\ last.pre.st.installation_status = "NOT_INSTALLED" /\ last.exc # NoError)
    => (PostStatus = Absent /\ ~env.unit)

\* the outcomes of the native calls of an install in which up to two kinds of
\* call fail: one for a step of install, one for a step of its rollback
InstallFaults == {c \in [fail : SUBSET (CallKinds("install") \cap BackendCalls(backend))] : Cardinality(c.fail) <= 2}

\* install, whose try block ended as t, raised r.exc: the failure of the try
\* block itself, or the ServiceOperationError(install) made from it
OriginalKept(t, r) ==
    t.exc # NoError => \/ r.exc = t.exc
                       \/ t.exc.type # "ServiceOperationError" /\ r.exc = ServiceOperationError("install")

\* C17: when install fails at some step, the error raised to the caller after
\* the rollback is the original failure, also when the rollback uninstall
\* itself fails.
C17_OriginalErrorKept ==
    PostStatus = Absent =>
        \A v \in Versions, c \in InstallFaults :
            CASE backend = "linux" -> OriginalKept(Linux_try(env, v, c), Linux_install(env, v, FALSE, c))
              [] backend = "macos" -> OriginalKept(MacOS_try(env, v, c), MacOS_install(env, v, FALSE, c))
              [] OTHER -> TRUE

\* the errors of input validation
ValidationErrors == {"ValueError", "IndexError", "FileNotFoundError"}

\* C18: a validation failure (empty service name at ServiceConfig construction,
\* install with an empty argument list or with an absolute first argument that
\* does not exist) is raised before any native call or file creation: the
\* facility and the disk are after the failed call what they were before it.
C18_ValidationFirst ==
    [][(last'.op \in {"ServiceConfig", "install"} /\ last'.exc.type \in ValidationErrors)
       => (env' = env /\ last'.calls = <<>> /\ status(backend, env').st = last'.pre.st)]_vars

C18_Witness ==
    /\ last.op = "install" /\ last.exc.type \in {"IndexError", "FileNotFoundError"}
    /\ last.pre.st.installation_status = "NOT_INSTALLED"
    /\ ~env.dir /\ ~env.unit

\* C19: install on an already installed service issues no native call and
\* leaves the unit, the recorded version, enablement and running state as they
\* were, also when the supplied version differs from the installed one; it
\* returns normally without strict mode and raises the already-installed
\* condition with it.
C19_InstallOnInstalled ==
    [][(/\ last'.op = "install"
        /\ last'.pre.st.installation_status = "INSTALLED"
        /\ last'.exc.type \notin ValidationErrors)
       => (/\ env' = env
           /\ last'.calls = <<>>
           /\ version(backend, env') = version(backend, env)
           /\ last'.exc = IF last'.strict THEN Raise("ServiceAlreadyInstalledError") ELSE NoError)]_vars

C19_Witness ==
    /\ last.op = "install" /\ ~last.strict /\ last.exc = NoError
    /\ last.pre.st.installation_status = "INSTALLED"
    /\ env.unit /\ last.v # env.ver

\* the operation op called now, its native calls failing as c says
CallWith(op, strict, c) == CASE op = "install" -> install(backend, env, "valid", V_1_0_0, strict, c)
                             [] op = "uninstall" -> uninstall(backend, env, strict, c)
                             [] op = "enable" -> enable(backend, env, strict, c)
                             [] op = "disable" -> disable(backend, env, strict, c)
                             [] op = "start" -> start(backend, env, strict, c)
                             [] OTHER -> stop(backend, env, strict, c)

\* the state-changing commands given to the native facility (systemctl,
\* launchctl, schtasks, process termination); file operations and the poll are
\* not among them
StateChanging == {"register", "daemon-reload", "enable", "disable", "start", "start_once", "stop", "end", "kill_children", "kill"}

\* a run r in which a native call that c makes fail was issued raised an
\* operation-scoped error
Scoped(r, c) == Issued(r.calls, c.fail \cap StateChanging) => r.exc.type = "ServiceOperationError"

\* C20: every failure of a state-changing native call made by install,
\* uninstall, enable, disable, start or stop makes that operation raise an
\* operation-scoped error; no backend ignores the failure and continues.
C20_NativeFailureRaises ==
    \A op \in {"install", "uninstall", "enable", "disable", "start", "stop"}, strict \in BOOLEAN :
        \A c \in AllOutcomes(op) : Scoped(CallWith(op, strict, c), c)

\* a process spawned for the service is alive: the unit's main process under
\* systemd or launchd, a child of the supervisor on Windows
PayloadAlive(b, e) == IF b = "windows" THEN \E p \in Pids : e.procs[p] = "payload" ELSE e.active

\* C21: whenever stop returns without raising, no process spawned for the
\* service is alive at the moment stop returns.
C21_StopMeansGone ==
    (last.op = "stop" /\ last.exc = NoError) => ~PayloadAlive(backend, env)

\* the place of a native call in the order of the Windows stop
StopRank(kind) == CASE kind = "end" -> 1
                    [] kind = "kill_children" -> 2
                    [] kind = "kill" -> 3
                    [] kind = "unlink_marker" -> 4
                    [] OTHER -> 0

PayloadExits == [fail |-> {"exit"}]

\* stop found the pid of the marker gone: it killed nothing, raised nothing,
\* removed the marker and left every process as it was
StaleHandled(e, r) ==
    /\ r.exc = NoError
    /\ r.calls = <<"end", "unlink_marker">>
    /\ r.e.marker = 0
    /\ \A p \in Pids : p # e.marker => r.e.procs[p] = e.procs[p]

\* C23: when the process recorded in the marker file no longer exists at the
\* moment Windows stop reads the file, stop kills nothing, raises no error for
\* that, removes the marker file and completes normally.
C23_StaleMarker ==
    (backend = "windows" /\ status(backend, env).st.running_status = "RUNNING")
    => \A strict \in BOOLEAN : StaleHandled(env, Windows_stop(env, strict, PayloadExits))

C23_Witness ==
    /\ backend = "windows" /\ last.op = "stop" /\ last.pre.st.running_status = "RUNNING"
    /\ last.calls = <<"end", "unlink_marker">> /\ last.exc = NoError
    /\ env.marker = 0

\* C24: when, after ending the task, killing the recorded process tree and
\* deleting the marker, status still reports RUNNING at every sample of the
\* final wait, Windows stop raises ServiceOperationError for stop and does not
\* return normally.
C24_StopHardFailure ==
    (/\ backend = "windows" /\ last.op = "stop"
     /\ Issued(last.calls, {"end"}) /\ last.exc.type # "AccessDenied"
     /\ PostStatus.st.running_status = "RUNNING")
    => last.exc = ServiceOperationError("stop")

C24_Witness ==
    /\ backend = "windows" /\ last.op = "stop"
    /\ Issued(last.calls, {"end", "kill", "unlink_marker"})
    /\ PostStatus.st.running_status = "RUNNING"
    /\ last.exc = ServiceOperationError("stop")

\* C25: on Windows status reports RUNNING only when the process recorded in
\* the marker is the payload itself: when the payload has exited and an
\* unrelated process holds the recorded pid while the marker file is still
\* there, status reports NOT_RUNNING.
C25_PidReuseGuard ==
    (backend = "windows" /\ status(backend, env).st.running_status = "RUNNING")
    => (env.marker # 0 /\ env.procs[env.marker] = "payload")

\* the payload the supervisor is monitoring is gone
PayloadKilled == backend = "windows" /\ env.sup = "monitor" /\ ~pid_exists(env, env.child)

\* C26: when the payload is killed out-of-band while the Windows supervisor is
\* monitoring it, the supervisor eventually deletes the marker file and
\* status().running converges to NOT_RUNNING; no library operation is needed
\* for that.
C26_SupervisorCleansUp ==
    PayloadKilled ~> (env.marker = 0 /\ status(backend, env).st.running_status = "NOT_RUNNING")

C26_Witness ==
    /\ backend = "windows" /\ last = NoCall
    /\ env.sup = "sleep" /\ env.marker = 0 /\ env.unit
    /\ ~PayloadAlive(backend, env)

\* the supervisor runs and the payload it spawned last does not
Crashed == /\ backend = "windows"
           /\ env.sup \in {"monitor", "reap", "sleep", "spawn"}
           /\ env.sup = "monitor" => ~pid_exists(env, env.child)

\* the supervisor was ended, or its working directory was taken away
Intervened == env.sup = "dead" \/ ~env.dir

\* no process id is left for a new payload
PidsExhausted == NextPid(env) = 0

\* the marker names the payload just spawned
MarkerWritten == env.sup = "monitor" /\ env.marker # 0 /\ env.marker = env.child

\* C27: while the Windows supervisor is alive, whenever the payload exits the
\* supervisor eventually spawns a new payload and writes a new marker, and with
\* the payload alive status().running is RUNNING again; no library call is
\* needed for that.
C27_RestartOnCrash ==
    /\ Crashed ~> (env.sup = "write" \/ (MarkerWritten /\ pid_exists(env, env.marker)) \/ Intervened \/ PidsExhausted)
    /\ (backend = "windows" /\ env.sup = "write") ~> (MarkerWritten \/ Intervened)
    /\ [](backend = "windows" /\ MarkerWritten /\ pid_exists(env, env.marker) /\ env.unit
          => status(backend, env).st.running_status = "RUNNING")

C27_Witness ==
    /\ backend = "windows" /\ last = NoCall
    /\ env.sup = "write" /\ env.marker = 0 /\ env.unit
    /\ pid_exists(env, env.child)

\* the native calls made by running an external tool with subprocess.run
\* (systemctl, launchctl, schtasks); the others are file and process calls
\* made in-process
ShellOuts(b) == {"daemon-reload", "enable", "disable", "start", "start_once", "stop", "register", "end",
                 "is-enabled", "is-active", "print-disabled", "print", "query-xml"}
                \cup (IF b = "windows" THEN {"remove_unit"} ELSE {})

\* subprocess.run is given timeout= at this call: at every call of linux.py,
\* at none of macos.py and windows.py
SubprocessTimeout(b, kind) == b = "linux"

\* the caller waits for ever
Blocked == [type |-> "blocked", op |-> "-"]

\* what the caller of a tool that never returns gets
Hung(b, kind) == IF SubprocessTimeout(b, kind) THEN Raise("TimeoutExpired") ELSE Blocked

\* the end of a run r in which the tool of this kind never returns
HungRun(b, kind, r) == IF Issued(r.calls, {kind}) THEN Hung(b, kind) ELSE r.exc

\* C28: every lifecycle operation and status query terminates even when an
\* invoked native tool hangs: each shell-out has an enforced subprocess
\* timeout, so a tool that never returns ends in an error.
C28_HungToolTerminates ==
    /\ \A op \in {"install", "uninstall", "enable", "disable", "start", "stop"} :
          \A kind \in ShellOuts(backend) \cap CallKinds(op) \cap BackendCalls(backend) :
              HungRun(backend, kind, CallWith(op, FALSE, [fail |-> {kind}])) # Blocked
    /\ \A q \in {status(backend, env).queries[i] : i \in DOMAIN status(backend, env).queries} \cap ShellOuts(backend) :
          Hung(backend, q) # Blocked

\* how many calls of this kind were issued
Count(calls, kind) == Cardinality({i \in DOMAIN calls : calls[i] = kind})

\* a run r of op under outcome c re-issued no failed state-changing call,
\* but for the one retry of the macOS start call (which fails by itself
\* when there is no plist file to bootstrap)
BoundedRetry(op, c, r) ==
    /\ \A kind \in (c.fail \cap StateChanging) \ {"start"} : Count(r.calls, kind) <= 1
    /\ Count(r.calls, "start") <= IF backend = "macos" THEN 2 ELSE 1
    /\ Count(r.calls, "start") = 2 => (c.fail \cap {"start", "start_once"} # {} \/ (op = "start" /\ ~env.unit))
    /\ (op = "start" /\ Count(r.calls, "start") = 2 /\ "start" \in c.fail) => r.exc = ServiceOperationError("start")

\* C29: one start call on macOS issues the native start call at most twice,
\* the second time only if the first failed, and raises an operation failure
\* for start if the second fails too; no other operation in any backend
\* re-issues a failed state-changing native call.
\* (strict mode only adds raises that come before the first native call)
C29_BoundedRetry ==
    \A op \in {"install", "uninstall", "enable", "disable", "start", "stop"} :
        \A c \in AllOutcomes(op) : BoundedRetry(op, c, CallWith(op, FALSE, c))

C29_Witness ==
    /\ backend = "macos" /\ last.op = "start"
    /\ last.calls = <<"start", "start">> /\ last.exc = NoError
    /\ PostStatus.st.running_status = "RUNNING"

\* C30: in the Windows supervisor loop the supervisor always sleeps the
\* throttle interval between the exit of a payload, or a failed spawn attempt,
\* and the next spawn attempt: a supervisor comes to a spawn attempt only when
\* it has just been started or out of its throttle sleep, and after an attempt
\* it monitors the child it created or goes to sleep.
C30_Throttle ==
    [][backend = "windows" =>
         /\ (env'.sup = "spawn" /\ env.sup # "spawn") => env.sup \in {"sleep", "dead"}
         /\ (env'.sup = "write" /\ env.sup # "write") => env.sup = "spawn"
         /\ (env'.sup = "monitor" /\ env.sup \notin {"monitor", "write"}) => env.sup \in {"spawn", "sleep", "dead"}
         /\ (env.sup = "spawn" /\ env'.sup # "spawn") => env'.sup \in {"write", "monitor", "sleep", "dead"}
         /\ (env.sup \in {"monitor", "reap"} /\ env'.sup # env.sup) => env'.sup \in {"reap", "sleep", "dead"}]_vars

C30_Witness ==
    /\ backend = "windows" /\ last = NoCall
    /\ env.sup = "spawn" /\ env.marker = 0 /\ env.unit
    /\ ~PayloadAlive(backend, env)

\* C31: in the supervisor loop the marker file is written only after a
\* successful spawn and records that child's pid; the supervisor deletes it
\* after it has seen the child exit and before it starts the throttle sleep; a
\* failed spawn writes no marker; a sleeping supervisor writes none.
C31_MarkerLifecycle ==
    [][backend = "windows" =>
         /\ (env'.marker # 0 /\ env'.marker # env.marker)
               => (env'.sup = "monitor" /\ env'.marker = env'.child /\ env.sup \in {"write", "spawn", "sleep", "dead"})
         /\ (env.sup = "write" /\ env'.sup = "monitor") => env'.marker = env.child
         /\ (env.sup = "spawn" /\ env'.sup = "sleep") => env'.marker = env.marker
         /\ (env.sup = "monitor" /\ env'.sup = "reap") => ~pid_exists(env, env.child)
         /\ (env.sup = "reap" /\ env'.sup = "sleep") => env'.marker = 0
         /\ (env.sup = "sleep" /\ env'.sup = "sleep") => env'.marker \in {0, env.marker}]_vars

C31_Witness ==
    /\ backend = "windows" /\ last = NoCall
    /\ env.sup = "reap" /\ env.marker # 0 /\ env.marker = env.child

\* the facility as a command that was accepted leaves it once its effect shows
Settled(b, e) == IF b = "windows" THEN (IF e.marker # 0 THEN [e EXCEPT !.marker = 0] ELSE TaskRunConverged(e))
                 ELSE [e EXCEPT !.active = ~e.active]

\* the status sample number i of a poll: taken at time i * poll_interval
Sample(i, b, eSlow, eConv, delay) == status(b, IF i >= delay THEN eConv ELSE eSlow)

\* the poll w over these samples came back True exactly when one of the samples
\* taken before the timeout had the running status waited for
PollIsExact(w, b, eSlow, eConv, delay, target) ==
    /\ w.ok \in BOOLEAN
    /\ w.ok <=> \E i \in 0 .. MaxSamples - 1 : Sample(i, b, eSlow, eConv, delay).st.running_status = target
    /\ (\A i \in 0 .. MaxSamples - 1 : Sample(i, b, eSlow, eConv, delay).exc = NoError) => w.exc = NoError

StaleMarker(e) == e.marker # 0 /\ ~pid_exists(e, e.marker)

\* C33: on Windows, when the marker file is present and its recorded pid is
\* dead, status().running is NOT_RUNNING and the library cleans the stale
\* marker up: it is gone after a status or stop call made in that state.
C33_StaleMarkerCleaned ==
    [][(backend = "windows" /\ env.unit /\ StaleMarker(env) /\ last'.op \in {"status", "stop"})
       => (status(backend, env).st.running_status = "NOT_RUNNING" /\ ~StaleMarker(env'))]_vars

\* C34: uninstall removes the owned directory only when no supervised process
\* of the service (Windows supervisor wrapper or payload) is alive, also when
\* it is called while the payload has exited and the supervisor is in its
\* throttle sleep.
C34_NoProcessAtRmtree ==
    (backend = "windows" /\ last.op = "uninstall" /\ Issued(last.calls, {"rmtree"}))
    => (env.sup = "dead" /\ ~PayloadAlive(backend, env))

\* C35: a disabled service is never left running: in every reachable state
\* status never reports enablement DISABLED together with running RUNNING.
C35_NeverDisabledRunning ==
    ~(/\ PostStatus.st.installation_status = "INSTALLED"
      /\ PostStatus.st.enablement_status = "DISABLED"
      /\ PostStatus.st.running_status = "RUNNING")

\* C36: after stop returns without raising, status stays NOT_RUNNING under
\* supervisor and facility steps until the next start or install call, also
\* when stop was called during the supervisor's throttle sleep and when
\* ending the scheduled task did not succeed.
\* Stated for the supervisor or facility step that directly follows the return.
C36_StaysStopped ==
    [][(last.op = "stop" /\ last.exc = NoError /\ last'.op = "none")
       => status(backend, env').st.running_status = "NOT_RUNNING"]_vars

\* C37: Windows stop only kills the payload spawned by this service's
\* supervisor (and its descendants): no library call terminates an unrelated
\* process that holds the pid recorded in the marker file.
C37_KillsOnlyPayload ==
    [][(backend = "windows" /\ last'.op # "none")
       => \A p \in Pids : env.procs[p] = "foreign" => env'.procs[p] = "foreign"]_vars

\* the payload processes alive on the host
Payloads(e) == {p \in Pids : e.procs[p] = "payload"}

\* C38: on Windows at most one payload spawned for the service is alive: a
\* supervisor is alive next to a payload only when that payload is the child
\* it spawned and has not yet seen exit, so no start/stop/install sequence
\* produces a supervisor or payload while an earlier payload is still alive.
C38_SinglePayload ==
    backend = "windows" =>
        /\ Cardinality(Payloads(env)) <= 1
        /\ \A p \in Payloads(env) : env.sup = "dead" \/ (env.sup \in {"write", "monitor"} /\ p = env.child)

\* C39: a call that raises a precondition-conflict error has issued no
\* state-changing native call before raising, and the status triple after
\* the raise equals the triple before the call, in every backend and state.
C39_ConflictIsPure ==
    (last.exc.type \in PreconditionErrors)
    => (~Issued(last.calls, StateChanging) /\ PostStatus = last.pre)

\* uninstall r raised and removed neither the unit definition nor the owned
\* directory of e: the service is still reported INSTALLED
Kept(e, r) ==
    /\ r.exc # NoError
    /\ r.e.unit = e.unit /\ r.e.dir = e.dir
    /\ ~Issued(r.calls, {"remove_unit", "rmtree"})
    /\ status(backend, r.e).st.installation_status = "INSTALLED"

\* the disable that uninstall performs after the steps rs raises
DisableFails(rs, c) == rs.exc = NoError /\ disable(backend, rs.e, FALSE, c).exc # NoError

\* uninstall r from e under the outcomes c, rs being the stop it performs when
\* the status st read at its start is RUNNING
UninstallOrdered(e, c, st, rs, r) ==
    /\ (st.installation_status = "INSTALLED" /\ st.running_status = "RUNNING" /\ rs.exc # NoError)
           => Kept(e, r)
    /\ (st.installation_status = "INSTALLED" /\ st.enablement_status = "ENABLED"
          /\ DisableFails(IF st.running_status = "RUNNING" THEN rs ELSE Return(e), c))
           => Kept(e, r)
    /\ (Issued(r.calls, {"remove_unit"}) /\ "remove_unit" \in c.fail)
           => (r.exc # NoError /\ r.e.dir = e.dir /\ ~Issued(r.calls, {"rmtree"}))

\* C40: when the stop or the disable performed inside uninstall fails,
\* uninstall raises and has removed neither the unit definition nor the owned
\* directory, so the service is still reported INSTALLED; when removing the
\* unit definition fails, the owned directory has not been removed.
C40_UninstallOrder ==
    \A c \in AllOutcomes("uninstall") :
        UninstallOrdered(env, c, status(backend, env).st, stop(backend, env, FALSE, c), uninstall(backend, env, FALSE, c))

C40_Witness ==
    /\ last.op = "uninstall" /\ last.exc = ServiceOperationError("stop")
    /\ last.pre.st.running_status = "RUNNING"
    /\ env.unit /\ env.dir /\ PostStatus.st.installation_status = "INSTALLED"

====
